---------------------------- MODULE Spec2Model ----------------------------
(***************************************************************************)
(* Model of ae/core/autogen_wrapper.py: the AutogenWrapper class.          *)
(*                                                                         *)
(* A caller builds a wrapper (AutogenWrapper.create, or the bare           *)
(* constructor), then sends it commands (process_command).  create builds  *)
(* the agents_map in __initialize_agents and registers one nested chat on  *)
(* user_proxy, triggered by planner_agent, between browser_nav_executor    *)
(* and browser_nav_agent.  process_command renders the prompt and runs     *)
(* user_proxy.a_initiate_chat(planner_agent, ...).                         *)
(*                                                                         *)
(* The turn loop itself is executed by the autogen library with the        *)
(* parameters the source passes to it (is_termination_msg,                 *)
(* max_consecutive_auto_reply, human_input_mode="NEVER", max_turns=2,      *)
(* summary_method="last_msg"); every backend call of that loop is one      *)
(* step of the model.  Strings are sequences of one-character strings.     *)
(* The environment is taken to hold OPENAI_API_KEY.                        *)
(***************************************************************************)
EXTENDS Integers, Sequences, FiniteSets, TLC

VARIABLES
    agents_needed,   \* the caller's argument to create: None or a list object
    wrapper,         \* the AutogenWrapper instance the caller holds
    creates,         \* what the last two calls of create did, in call order
    pc,              \* where the caller / the running exchange is
    cmd,             \* arguments of the process_command call in progress
    chat_messages,   \* user_proxy <-> planner_agent history
    counter,         \* user_proxy's consecutive auto replies to planner_agent
    nested_messages, \* browser_nav_executor <-> browser_nav_agent history
    nested_turns,    \* iterations of the max_turns loop in this activation
    nested_counter,  \* executor's consecutive auto replies to browser_nav_agent
    status,          \* how the top-level exchange stands
    backend_calls,   \* backend calls issued for planner_agent in this command
    result,          \* what process_command gave its caller
    error,           \* the exception that ended the exchange, and whose turn
    logged,          \* logger.error was called by the except clause
    probe            \* the last is_termination_msg call made on its own

vars == <<agents_needed, wrapper, creates, pc, cmd, chat_messages, counter,
          nested_messages, nested_turns, nested_counter, status,
          backend_calls, error, result, logged, probe>>

chatVars == <<chat_messages, counter, nested_messages, nested_turns,
              nested_counter, status, backend_calls>>

---------------------------------------------------------------------------
(* Bounds *)

MaxLen == 5          \* longest requested role list
MaxChatRound == 2    \* largest max_chat_round passed to create

---------------------------------------------------------------------------
(* Strings *)

Str_TERMINATE == <<"#","#","T","E","R","M","I","N","A","T","E","#","#">>
Str_TERMINATE_SUBTASK ==
    <<"#","#","T","E","R","M","I","N","A","T","E"," ",
      "S","U","B","T","A","S","K","#","#">>
Str_TERMINATE_word == <<"T","E","R","M","I","N","A","T","E">>
Str_CurrentURL == <<"C","u","r","r","e","n","t"," ","U","R","L",":"," ">>

Whitespace == {" ", "\n", "\t"}

LowerToUpper ==
    [c \in {"a","b","d","e","g","i","k","l","m","n","o","p","r","s","t","u"} |->
        CASE c = "a" -> "A" [] c = "b" -> "B" [] c = "d" -> "D"
          [] c = "e" -> "E" [] c = "g" -> "G" [] c = "i" -> "I"
          [] c = "k" -> "K" [] c = "l" -> "L" [] c = "m" -> "M"
          [] c = "n" -> "N" [] c = "o" -> "O" [] c = "p" -> "P"
          [] c = "r" -> "R" [] c = "s" -> "S" [] c = "t" -> "T"
          [] c = "u" -> "U"]

\* str.upper()
Upper(s) ==
    [i \in 1..Len(s) |->
        IF s[i] \in DOMAIN LowerToUpper THEN LowerToUpper[s[i]] ELSE s[i]]

RStrip_None(s) == s

\* str.rstrip()
RECURSIVE RStrip(_)
RStrip(s) ==
    IF s = <<>> THEN s
    ELSE IF s[Len(s)] \in Whitespace THEN RStrip(SubSeq(s, 1, Len(s) - 1))
    ELSE s

\* str.endswith(suffix)
EndsWith(s, suffix) ==
    /\ Len(suffix) <= Len(s)
    /\ SubSeq(s, Len(s) - Len(suffix) + 1, Len(s)) = suffix

\* s.replace(sub, ""): every occurrence of sub goes, left to right
RECURSIVE Remove(_, _)
Remove(s, sub) ==
    IF Len(s) < Len(sub) THEN s
    ELSE IF SubSeq(s, 1, Len(sub)) = sub
    THEN Remove(SubSeq(s, Len(sub) + 1, Len(s)), sub)
    ELSE <<Head(s)>> \o Remove(Tail(s), sub)

\* sub in s
Contains(s, sub) ==
    \E i \in 0..(Len(s) - Len(sub)) : SubSeq(s, i + 1, i + Len(sub)) = sub

---------------------------------------------------------------------------
(* Roles and role lists *)

KnownRoles ==
    {"user_proxy", "browser_nav_executor", "planner_agent", "browser_nav_agent"}

RoleNames == KnownRoles \cup {"summarizer_agent"}

RoleLists == UNION {[1..n -> RoleNames] : n \in 0..MaxLen}

DefaultAgentsNeeded ==
    <<"user_proxy", "browser_nav_executor", "planner_agent", "browser_nav_agent">>

None == [isNone |-> TRUE, list |-> <<>>]
ListArg(l) == [isNone |-> FALSE, list |-> l]

\* x in list
In(x, l) == \E i \in 1..Len(l) : l[i] = x

\* list.remove(x) on a list that holds x: the first occurrence goes (on a
\* list that does not, it raises ValueError: see initialize_agents)
ListRemove(l, x) ==
    LET i == CHOOSE k \in 1..Len(l) : l[k] = x /\ \A j \in 1..(k - 1) : l[j] # x
    IN SubSeq(l, 1, i - 1) \o SubSeq(l, i + 1, Len(l))

---------------------------------------------------------------------------
(* Agents *)

NoAgents == [r \in {} |-> 0]

\* is_termination_msg of user_proxy
IsTerminationMsgUserProxy(content) ==
    /\ content # <<>>
    /\ EndsWith(Upper(RStrip(content)), Str_TERMINATE)

\* is_termination_msg of browser_nav_executor
IsTerminationMsgExecutor(content) ==
    /\ content # <<>>
    /\ EndsWith(Upper(RStrip(content)), Str_TERMINATE_SUBTASK)

create_user_proxy_agent(number_of_rounds) ==
    [name |-> "user_proxy", sentinel |-> Str_TERMINATE,
     human_input_mode |-> "NEVER",
     max_consecutive_auto_reply |-> number_of_rounds]

create_browser_nav_executor_agent(number_of_rounds) ==
    [name |-> "browser_nav_executor", sentinel |-> Str_TERMINATE_SUBTASK,
     human_input_mode |-> "NEVER",
     max_consecutive_auto_reply |-> number_of_rounds]

\* BrowserNavAgent(config_list, browser_nav_executor).agent
create_browser_nav_agent(executor) ==
    [name |-> "browser_nav_agent", cls |-> "BrowserNavAgent",
     executor |-> executor.name]

\* PlannerAgent(config_list).agent
create_planner_agent ==
    [name |-> "planner_agent", cls |-> "PlannerAgent"]

\* agents_map[key] = agent
Put(map, key, agent) ==
    [k \in DOMAIN map \cup {key} |-> IF k = key THEN agent ELSE map[k]]

ErrNone == "none"
ErrUserProxyRequired ==
    "ValueError: user_proxy agent is required in the list of needed agents."
ErrListRemove == "ValueError: list.remove(x): x not in list"
ErrUnknownAgentType == "ValueError: Unknown agent type"
ErrKeyError == "KeyError"
ErrAgentsMapNone == "ValueError: Agents map is not initialized."

RECURSIVE InitializeLoop_SkipsUnknown(_, _, _, _)
InitializeLoop_SkipsUnknown(l, i, map, executor) ==
    IF i > Len(l) THEN [err |-> ErrNone, name |-> "", agents_map |-> map]
    ELSE IF l[i] = "browser_nav_agent" THEN
        InitializeLoop_SkipsUnknown(l, i + 1,
            Put(map, "browser_nav_agent", create_browser_nav_agent(executor)),
            executor)
    ELSE IF l[i] = "planner_agent" THEN
        InitializeLoop_SkipsUnknown(l, i + 1,
            Put(map, "planner_agent", create_planner_agent), executor)
    ELSE InitializeLoop_SkipsUnknown(l, i + 1, map, executor)

RECURSIVE InitializeLoop_NoNavigator(_, _, _, _)
InitializeLoop_NoNavigator(l, i, map, executor) ==
    IF i > Len(l) THEN [err |-> ErrNone, name |-> "", agents_map |-> map]
    ELSE IF l[i] = "browser_nav_agent" THEN
        InitializeLoop_NoNavigator(l, i + 1, map, executor)
    ELSE IF l[i] = "planner_agent" THEN
        InitializeLoop_NoNavigator(l, i + 1,
            Put(map, "planner_agent", create_planner_agent), executor)
    ELSE [err |-> ErrUnknownAgentType, name |-> l[i], agents_map |-> map]

RECURSIVE InitializeLoop_RejectsDuplicates(_, _, _, _)
InitializeLoop_RejectsDuplicates(l, i, map, executor) ==
    IF i > Len(l) THEN [err |-> ErrNone, name |-> "", agents_map |-> map]
    ELSE IF l[i] \in DOMAIN map THEN
        [err |-> ErrUnknownAgentType, name |-> l[i], agents_map |-> map]
    ELSE IF l[i] = "browser_nav_agent" THEN
        InitializeLoop_RejectsDuplicates(l, i + 1,
            Put(map, "browser_nav_agent", create_browser_nav_agent(executor)),
            executor)
    ELSE IF l[i] = "planner_agent" THEN
        InitializeLoop_RejectsDuplicates(l, i + 1,
            Put(map, "planner_agent", create_planner_agent), executor)
    ELSE [err |-> ErrUnknownAgentType, name |-> l[i], agents_map |-> map]

\* the loop over what is left of agents_needed, from position i
RECURSIVE InitializeLoop(_, _, _, _)
InitializeLoop(l, i, map, executor) ==
    IF i > Len(l) THEN [err |-> ErrNone, name |-> "", agents_map |-> map]
    ELSE IF l[i] = "browser_nav_agent" THEN
        InitializeLoop(l, i + 1,
            Put(map, "browser_nav_agent", create_browser_nav_agent(executor)),
            executor)
    ELSE IF l[i] = "planner_agent" THEN
        InitializeLoop(l, i + 1,
            Put(map, "planner_agent", create_planner_agent), executor)
    ELSE [err |-> ErrUnknownAgentType, name |-> l[i], agents_map |-> map]

UserProxyMissing_Unchecked(l) == FALSE

\* the membership test that opens __initialize_agents
UserProxyMissing(l) == ~In("user_proxy", l)

\* __initialize_agents(agents_needed): the error raised (or none), the local
\* agents_map as far as it was filled, and the argument list as it is left
initialize_agents(l, number_of_rounds) ==
    IF UserProxyMissing(l) THEN
        [err |-> ErrUserProxyRequired, name |-> "user_proxy",
         agents_map |-> NoAgents, list |-> l]
    ELSE
        LET user_proxy_agent == create_user_proxy_agent(number_of_rounds)
            m1 == Put(NoAgents, "user_proxy", user_proxy_agent)
            l1 == ListRemove(l, "user_proxy")
            browser_nav_executor ==
                create_browser_nav_executor_agent(number_of_rounds)
            m2 == Put(m1, "browser_nav_executor", browser_nav_executor)
        IN  IF ~In("user_proxy", l) THEN
                [err |-> ErrListRemove, name |-> "user_proxy",
                 agents_map |-> m1, list |-> l]
            ELSE IF ~In("browser_nav_executor", l1) THEN
                [err |-> ErrListRemove, name |-> "browser_nav_executor",
                 agents_map |-> m2, list |-> l1]
            ELSE
                LET l2 == ListRemove(l1, "browser_nav_executor")
                    r == InitializeLoop(l2, 1, m2, browser_nav_executor)
                IN  [err |-> r.err, name |-> r.name,
                     agents_map |-> r.agents_map, list |-> l2]

NestedMaxTurns == 2

\* the chat queue entry handed to register_nested_chats
NestedChat ==
    [trigger |-> "planner_agent", sender |-> "browser_nav_executor",
     recipient |-> "browser_nav_agent", max_turns |-> NestedMaxTurns,
     summary_method |-> "last_msg"]

NoMap == [isNone |-> TRUE, dict |-> NoAgents]
Map(m) == [isNone |-> FALSE, dict |-> m]

NoWrapper ==
    [origin |-> "none", number_of_rounds |-> 0, agents_map |-> NoMap,
     nested_chats |-> <<>>]

create_NoTriggerLookup(arg, max_chat_round) ==
    LET l == IF arg.isNone THEN DefaultAgentsNeeded ELSE arg.list
        r == initialize_agents(l, max_chat_round)
        keys == DOMAIN r.agents_map
    IN  IF r.err # ErrNone THEN
            [err |-> r.err, name |-> r.name, constructed |-> keys,
             stored |-> NoMap, returned |-> FALSE, list |-> r.list,
             nested_chats |-> <<>>]
        ELSE IF "browser_nav_agent" \notin keys THEN
            [err |-> ErrKeyError, name |-> "browser_nav_agent",
             constructed |-> keys, stored |-> Map(r.agents_map),
             returned |-> FALSE, list |-> r.list, nested_chats |-> <<>>]
        ELSE
            [err |-> ErrNone, name |-> "", constructed |-> keys,
             stored |-> Map(r.agents_map), returned |-> TRUE,
             list |-> r.list, nested_chats |-> <<NestedChat>>]

\* AutogenWrapper.create(agents_needed, max_chat_round): what the call leaves
\* behind.  err is the exception create raises, stored is self.agents_map of
\* the instance under construction, returned says whether the caller got it,
\* list is the argument list after the call.
create(arg, max_chat_round) ==
    LET l == IF arg.isNone THEN DefaultAgentsNeeded ELSE arg.list
        r == initialize_agents(l, max_chat_round)
        keys == DOMAIN r.agents_map
    IN  IF r.err # ErrNone THEN
            [err |-> r.err, name |-> r.name, constructed |-> keys,
             stored |-> NoMap, returned |-> FALSE, list |-> r.list,
             nested_chats |-> <<>>]
        ELSE IF "browser_nav_agent" \notin keys THEN
            [err |-> ErrKeyError, name |-> "browser_nav_agent",
             constructed |-> keys, stored |-> Map(r.agents_map),
             returned |-> FALSE, list |-> r.list, nested_chats |-> <<>>]
        ELSE IF "planner_agent" \notin keys THEN
            [err |-> ErrKeyError, name |-> "planner_agent",
             constructed |-> keys, stored |-> Map(r.agents_map),
             returned |-> FALSE, list |-> r.list, nested_chats |-> <<>>]
        ELSE
            [err |-> ErrNone, name |-> "", constructed |-> keys,
             stored |-> Map(r.agents_map), returned |-> TRUE,
             list |-> r.list, nested_chats |-> <<NestedChat>>]

---------------------------------------------------------------------------
(* The prompt *)

PH_command == "$command"
PH_segment == "$current_url_prompt_segment"

\* LLM_PROMPTS["COMMAND_EXECUTION_PROMPT"]: text around the two placeholders
COMMAND_EXECUTION_PROMPT ==
    <<"D", "o", " ", PH_command, " ", PH_segment>>

NoUrl == [isNone |-> TRUE, url |-> <<>>]
Url(u) == [isNone |-> FALSE, url |-> u]

CurrentUrlPromptSegment_IfNotNone(current_url) ==
    IF ~current_url.isNone THEN Str_CurrentURL \o current_url.url ELSE <<>>

CurrentUrlPromptSegment_Always(current_url) ==
    Str_CurrentURL \o current_url.url

\* current_url_prompt_segment as process_command computes it
CurrentUrlPromptSegment(current_url) ==
    IF ~current_url.isNone /\ current_url.url # <<>>
    THEN Str_CurrentURL \o current_url.url
    ELSE <<>>

\* Template(t).substitute(command=..., current_url_prompt_segment=...)
RECURSIVE Substitute(_, _, _)
Substitute(t, command, segment) ==
    IF t = <<>> THEN <<>>
    ELSE (IF Head(t) = PH_command THEN command
          ELSE IF Head(t) = PH_segment THEN segment
          ELSE <<Head(t)>>) \o Substitute(Tail(t), command, segment)

RenderPrompt(command, current_url) ==
    Substitute(COMMAND_EXECUTION_PROMPT, command,
               CurrentUrlPromptSegment(current_url))

---------------------------------------------------------------------------
(* Inputs *)

Commands == { <<"g","o">>, <<"c","l","i","c","k">> }

Urls == { NoUrl, Url(<<>>), Url(<<"x",".","i","o">>) }

\* what the backend may answer for planner_agent
PlannerReplies ==
    { <<"o","k">>,
      <<"p","l","a","n"," ","#","#","T","E","R","M","I","N","A","T","E","#","#">>,
      <<"#","#","t","e","r","m","i","n","a","t","e","#","#"," ">> }

\* what the backend may answer for browser_nav_agent
NavReplies ==
    { <<"o","p","e","n","e","d">>,
      <<"#","#","t","e","r","m","i","n","a","t","e","#","#">>,
      <<"#","#","T","E","R","M","I","N","A","T","E","#","#">>,
      <<"#","#","T","e","r","m","i","n","a","t","e"," ",
        "S","u","b","t","a","s","k","#","#"," ">> }

\* what browser_nav_executor answers on its own: the empty default auto
\* reply (it has no llm_config)
ExecutorReplies == { <<>> }

\* openai exceptions a backend call may raise
BackendErrors == {"BadRequestError", "APITimeoutError", "RateLimitError"}

---------------------------------------------------------------------------
(* process_command *)

NoResult == [kind |-> "none", value |-> "none", exc |-> "none"]
Returned_Outcome(v) == [kind |-> "returned", value |-> "Outcome", exc |-> "none"]
Returned(v) == [kind |-> "returned", value |-> v, exc |-> "none"]
Raised(e) == [kind |-> "raised", value |-> "none", exc |-> e]

NoError == [exc |-> "none", agent |-> "none"]

Catches_All(e) == TRUE

\* the except clause of process_command
Catches(e) == e = "BadRequestError"

Outcome_Reraises(e) == Raised(e)

\* how process_command ends when exception e reaches its try block
Outcome(e) == IF Catches(e) THEN Returned("None") ELSE Raised(e)

Msg(role, content) == [role |-> role, content |-> content]

\* nested_chat_message(recipient, messages, sender, config)
nested_chat_message(messages) == messages[1].content

LastMsgSummary_Verbatim(messages) == messages[Len(messages)].content

\* summary_method "last_msg": the content of the last message of the nested
\* chat, from which the library's summary removes the text "TERMINATE"
LastMsgSummary(messages) ==
    Remove(messages[Len(messages)].content, Str_TERMINATE_word)

ReplyCheck_OffByOne(n, agent, isTerminationMsg) ==
    IF n > agent.max_consecutive_auto_reply THEN "budget"
    ELSE IF isTerminationMsg THEN "terminate"
    ELSE "reply"

ReplyCheck_TerminationFirst(n, agent, isTerminationMsg) ==
    IF isTerminationMsg THEN "terminate"
    ELSE IF n >= agent.max_consecutive_auto_reply THEN "budget"
    ELSE "reply"

ReplyCheck_NoTermination(n, agent, isTerminationMsg) ==
    IF n >= agent.max_consecutive_auto_reply THEN "budget" ELSE "reply"

\* what an agent built with human_input_mode "NEVER", is_termination_msg and
\* max_consecutive_auto_reply does with a message it receives, having made n
\* consecutive automatic replies to the sender: stop because the budget is
\* used up, stop because the message is a termination message, or reply
ReplyCheck(n, agent, isTerminationMsg) ==
    IF n >= agent.max_consecutive_auto_reply THEN "budget"
    ELSE IF isTerminationMsg THEN "terminate"
    ELSE "reply"

NestedContinues_OffByOne(turns, link, check) ==
    turns <= link.max_turns /\ check = "reply"

NestedContinues_IgnoresCheck(turns, link, check) ==
    turns < link.max_turns

\* the max_turns loop of the nested chat goes into another turn
NestedContinues(turns, link, check) ==
    turns < link.max_turns /\ check = "reply"

\* an agent's is_termination_msg applied to a message dict
IsTerminationMsg(agent, message) ==
    LET content == IF message.hasContent THEN message.content ELSE <<>>
    IN  IF agent = "user_proxy" THEN IsTerminationMsgUserProxy(content)
        ELSE IsTerminationMsgExecutor(content)

NoProbe == [agent |-> "none", message |-> [hasContent |-> FALSE,
            content |-> <<>>], parts |-> <<>>, result |-> FALSE]

\* the state before any call, but for the caller's argument to create
Start ==
    /\ wrapper = NoWrapper
    /\ creates = <<>>
    /\ pc = "idle"
    /\ cmd = [command |-> <<>>, current_url |-> NoUrl, prompt |-> <<>>]
    /\ chat_messages = <<>>
    /\ counter = 0
    /\ nested_messages = <<>>
    /\ nested_turns = 0
    /\ nested_counter = 0
    /\ status = "Idle"
    /\ backend_calls = 0
    /\ error = NoError
    /\ result = NoResult
    /\ logged = FALSE
    /\ probe = NoProbe

\* the last two entries of the call log
LastTwo(log) == IF Len(log) > 2 THEN Tail(log) ELSE log

\* AutogenWrapper(max_chat_round)
Construct ==
    \E max_chat_round \in 1..MaxChatRound :
        /\ pc = "idle"
        /\ wrapper.origin = "none"
        /\ wrapper' = [origin |-> "init", number_of_rounds |-> max_chat_round,
                       agents_map |-> NoMap, nested_chats |-> <<>>]
        /\ UNCHANGED <<probe, agents_needed, creates, pc, cmd, chatVars, error,
                       result, logged>>

\* the agents of a wrapper just built have no history and no replies counted
FreshAgents ==
    /\ chat_messages' = <<>>
    /\ counter' = 0
    /\ nested_messages' = <<>>
    /\ nested_turns' = 0
    /\ nested_counter' = 0
    /\ status' = "Idle"
    /\ backend_calls' = 0

\* await AutogenWrapper.create(agents_needed, max_chat_round)
Create ==
    \E max_chat_round \in 1..MaxChatRound :
        LET c == create(agents_needed, max_chat_round) IN
        /\ pc = "idle"
        /\ creates' = LastTwo(Append(creates,
               [requested |-> agents_needed, max_chat_round |-> max_chat_round,
                err |-> c.err, name |-> c.name, constructed |-> c.constructed,
                stored |-> c.stored, returned |-> c.returned]))
        /\ agents_needed' =
               IF agents_needed.isNone THEN agents_needed ELSE ListArg(c.list)
        /\ wrapper' =
               IF c.returned
               THEN [origin |-> "create", number_of_rounds |-> max_chat_round,
                     agents_map |-> c.stored, nested_chats |-> c.nested_chats]
               ELSE wrapper
        /\ IF c.returned THEN FreshAgents ELSE UNCHANGED chatVars
        /\ UNCHANGED <<probe, pc, cmd, error, result, logged>>

\* process_command(command, current_url), up to the first backend call
ProcessCommand ==
    \E command \in Commands, current_url \in Urls :
        LET prompt == RenderPrompt(command, current_url) IN
        /\ pc = "idle"
        /\ wrapper.origin # "none"
        /\ cmd' = [command |-> command, current_url |-> current_url,
                    prompt |-> prompt]
        /\ logged' = FALSE
        /\ IF wrapper.agents_map.isNone THEN
               /\ result' = Outcome(ErrAgentsMapNone)
               /\ error' = [exc |-> ErrAgentsMapNone, agent |-> "none"]
               /\ UNCHANGED <<pc, chatVars>>
           ELSE
               /\ pc' = "planner"
               /\ chat_messages' = <<Msg("user_proxy", prompt)>>
               /\ counter' = 0
               /\ status' = "Running"
               /\ backend_calls' = 0
               /\ error' = NoError
               /\ result' = NoResult
               /\ UNCHANGED <<nested_messages, nested_turns, nested_counter>>
        /\ UNCHANGED <<probe, agents_needed, wrapper, creates>>

\* the backend call of a turn raises e: it unwinds to process_command
Fails(agent, e) ==
    /\ status' = "Failed"
    /\ error' = [exc |-> e, agent |-> agent]
    /\ result' = Outcome(e)
    /\ logged' = Catches(e)
    /\ pc' = "idle"

\* planner_agent's turn: the backend answers content, user_proxy receives it
\* and produces its reply up to the next backend call
PlannerReply ==
    \E content \in PlannerReplies :
        LET user_proxy == wrapper.agents_map.dict["user_proxy"]
            messages == Append(chat_messages, Msg("planner_agent", content))
            seed == nested_chat_message(messages)
            check == ReplyCheck(counter, user_proxy,
                                IsTerminationMsgUserProxy(content))
        IN
        /\ pc = "planner"
        /\ backend_calls' = backend_calls + 1
        /\ chat_messages' = messages
        /\ IF check = "budget" THEN
               /\ status' = "BudgetExhausted"
               /\ counter' = 0
               /\ result' = Returned("None")
               /\ pc' = "idle"
               /\ UNCHANGED <<nested_messages, nested_turns, nested_counter>>
           ELSE IF check = "terminate" THEN
               /\ status' = "Terminated"
               /\ counter' = 0
               /\ result' = Returned("None")
               /\ pc' = "idle"
               /\ UNCHANGED <<nested_messages, nested_turns, nested_counter>>
           ELSE IF seed = <<>> THEN
               /\ status' = "Stopped"
               /\ counter' = counter + 1
               /\ result' = Returned("None")
               /\ pc' = "idle"
               /\ UNCHANGED <<nested_messages, nested_turns, nested_counter>>
           ELSE
               /\ counter' = counter + 1
               /\ nested_messages' = <<Msg("browser_nav_executor", seed)>>
               /\ nested_turns' = 1
               /\ nested_counter' = 0
               /\ pc' = "nav"
               /\ UNCHANGED <<status, result>>
        /\ UNCHANGED <<probe, agents_needed, wrapper, creates, cmd, error, logged>>

\* planner_agent's turn: the backend call raises
PlannerFails ==
    \E e \in BackendErrors :
        /\ pc = "planner"
        /\ backend_calls' = backend_calls + 1
        /\ Fails("planner_agent", e)
        /\ UNCHANGED <<probe, agents_needed, wrapper, creates, cmd, chat_messages,
                       counter, nested_messages, nested_turns, nested_counter>>

\* browser_nav_agent's turn in the nested chat: the backend answers content;
\* the max_turns loop goes on with the executor's reply, or the nested chat
\* ends and user_proxy sends its summary to planner_agent
NavReply ==
    \E content \in NavReplies :
        LET executor == wrapper.agents_map.dict["browser_nav_executor"]
            link == wrapper.nested_chats[1]
            messages == Append(nested_messages,
                               Msg("browser_nav_agent", content))
            check == ReplyCheck(nested_counter, executor,
                                IsTerminationMsgExecutor(content))
        IN
        /\ pc = "nav"
        /\ nested_messages' = messages
        /\ IF NestedContinues(nested_turns, link, check) THEN
               /\ nested_counter' = nested_counter + 1
               /\ pc' = "executor"
               /\ UNCHANGED chat_messages
           ELSE
               /\ nested_counter' =
                      IF nested_turns < link.max_turns THEN 0
                      ELSE nested_counter
               /\ chat_messages' = Append(chat_messages,
                      Msg("user_proxy", LastMsgSummary(messages)))
               /\ pc' = "planner"
        /\ UNCHANGED <<probe, agents_needed, wrapper, creates, cmd, counter,
                       nested_turns, status, backend_calls, error, result,
                       logged>>

\* browser_nav_agent's turn in the nested chat: the backend call raises
NavFails ==
    \E e \in BackendErrors :
        /\ pc = "nav"
        /\ Fails("browser_nav_agent", e)
        /\ UNCHANGED <<probe, agents_needed, wrapper, creates, cmd, chat_messages,
                       counter, nested_messages, nested_turns, nested_counter,
                       backend_calls>>

\* browser_nav_executor's reply opens the next turn of the max_turns loop
ExecutorReply ==
    \E content \in ExecutorReplies :
        /\ pc = "executor"
        /\ nested_messages' = Append(nested_messages,
               Msg("browser_nav_executor", content))
        /\ nested_turns' = nested_turns + 1
        /\ pc' = "nav"
        /\ UNCHANGED <<probe, agents_needed, wrapper, creates, cmd, chat_messages,
                       counter, nested_counter, status, backend_calls, error,
                       result, logged>>

\* a caller that builds the full set of agents, by default or by naming them
SessionArgs == {None, ListArg(DefaultAgentsNeeded)}

Init == agents_needed \in SessionArgs /\ Start

Next ==
    \/ Construct
    \/ Create
    \/ ProcessCommand
    \/ PlannerReply
    \/ PlannerFails
    \/ NavReply
    \/ NavFails
    \/ ExecutorReply

Spec == Init /\ [][Next]_vars

\* construction alone, for every role list a caller may pass
InitBuild == agents_needed \in {None} \cup {ListArg(l) : l \in RoleLists} /\ Start

NextBuild ==
    \/ Construct
    \/ Create

SpecBuild == InitBuild /\ [][NextBuild]_vars

\* what may stand before a sentinel in a message
Prefixes == { <<>>, <<" ">>, <<"\n", " ">>, <<"x", " ">> }

\* the end of the text of a message, with the sentinel it spells in some
\* case ("none" when it spells neither)
Middles ==
    { [text |-> Str_TERMINATE, spells |-> "user_proxy"],
      [text |-> <<"#","#","t","e","r","m","i","n","a","t","e","#","#">>,
       spells |-> "user_proxy"],
      [text |-> <<"#","#","T","e","r","m","i","n","a","t","e","#","#">>,
       spells |-> "user_proxy"],
      [text |-> Str_TERMINATE_SUBTASK, spells |-> "browser_nav_executor"],
      [text |-> <<"#","#","t","e","r","m","i","n","a","t","e"," ",
                  "s","u","b","t","a","s","k","#","#">>,
       spells |-> "browser_nav_executor"],
      [text |-> <<"#","#","T","e","r","m","i","n","a","t","e"," ",
                  "S","u","b","T","a","s","k","#","#">>,
       spells |-> "browser_nav_executor"],
      [text |-> <<"#","T","E","R","M","I","N","A","T","E","#","#">>,
       spells |-> "none"],
      [text |-> <<"#","#","T","E","R","M","I","N","A","T","E","#">>,
       spells |-> "none"],
      [text |-> <<"#","#","T","E","R","M","I","N","A","T","E",
                  "S","U","B","T","A","S","K","#","#">>,
       spells |-> "none"],
      [text |-> <<"d","o","n","e">>, spells |-> "none"],
      [text |-> <<>>, spells |-> "none"] }

\* what may follow it, and whether that is whitespace only
Trailers ==
    { [text |-> <<>>, blank |-> TRUE],
      [text |-> <<" ">>, blank |-> TRUE],
      [text |-> <<"\n">>, blank |-> TRUE],
      [text |-> <<" ", "\t", "\n">>, blank |-> TRUE],
      [text |-> <<".">>, blank |-> FALSE],
      [text |-> <<" ", "x">>, blank |-> FALSE],
      [text |-> <<"x", " ">>, blank |-> FALSE] }

\* the agents that are given an is_termination_msg
PredicateAgents == {"user_proxy", "browser_nav_executor"}

\* one call agent.is_termination_msg(message), with the message put together
\* from a prefix, a middle and a trailer, or without a content key
IsTerminationMsgCall ==
    \E agent \in PredicateAgents, hasContent \in BOOLEAN,
       prefix \in Prefixes, middle \in Middles, trailer \in Trailers :
        LET parts == IF hasContent THEN <<prefix, middle, trailer>> ELSE <<>>
            message ==
                [hasContent |-> hasContent,
                 content |-> IF hasContent
                             THEN prefix \o middle.text \o trailer.text
                             ELSE <<>>]
        IN  /\ probe' = [agent |-> agent, message |-> message,
                         parts |-> parts,
                         result |-> IsTerminationMsg(agent, message)]
            /\ UNCHANGED <<agents_needed, wrapper, creates, pc, cmd, chatVars,
                           error, result, logged>>

InitPred == agents_needed = None /\ Start

NextPred == IsTerminationMsgCall

\* the termination predicates alone, called on every message in range
SpecPred == InitPred /\ [][NextPred]_vars

---------------------------------------------------------------------------
(* Properties *)

HasUnknownName(l) == \E i \in 1..Len(l) : l[i] \notin KnownRoles

\* C1: every call of create with a role list that does not hold user_proxy
\* raises the user_proxy-is-required ValueError, constructs no agent and
\* returns no wrapper.
C1_MissingUserProxyFails ==
    \A i \in 1..Len(creates) :
        (~creates[i].requested.isNone
            /\ ~In("user_proxy", creates[i].requested.list))
        => /\ creates[i].err = ErrUserProxyRequired
           /\ creates[i].constructed = {}
           /\ creates[i].stored = NoMap
           /\ ~creates[i].returned

C1_Witness ==
    \E i \in 1..Len(creates) :
        /\ ~creates[i].requested.isNone
        /\ creates[i].requested.list =
               <<"browser_nav_executor", "planner_agent", "browser_nav_agent">>
        /\ creates[i].err = ErrUserProxyRequired

\* C2 as stated: every call of create with a role list holding a name outside
\* the closed set raises the unknown-agent-type error and stores or returns
\* no agents_map.
C2_Original ==
    \A i \in 1..Len(creates) :
        (~creates[i].requested.isNone
            /\ HasUnknownName(creates[i].requested.list))
        => /\ creates[i].err = ErrUnknownAgentType
           /\ creates[i].stored = NoMap
           /\ ~creates[i].returned

\* C2: every call of create with a role list holding a name outside the
\* closed set fails, stores no agents_map on the instance and returns no
\* wrapper; the error is the user_proxy-is-required error when the list lacks
\* user_proxy, list.remove's ValueError when it holds user_proxy but not
\* browser_nav_executor, and the unknown-agent-type error otherwise.
C2_UnknownNameFails ==
    \A i \in 1..Len(creates) :
        (~creates[i].requested.isNone
            /\ HasUnknownName(creates[i].requested.list))
        => /\ creates[i].stored = NoMap
           /\ ~creates[i].returned
           /\ creates[i].err =
                IF ~In("user_proxy", creates[i].requested.list)
                THEN ErrUserProxyRequired
                ELSE IF ~In("browser_nav_executor", creates[i].requested.list)
                THEN ErrListRemove
                ELSE ErrUnknownAgentType

C2_Witness ==
    \E i \in 1..Len(creates) :
        /\ ~creates[i].requested.isNone
        /\ creates[i].requested.list =
               <<"planner_agent", "user_proxy", "summarizer_agent",
                 "browser_nav_executor">>
        /\ creates[i].err = ErrUnknownAgentType
        /\ creates[i].name = "summarizer_agent"
        /\ creates[i].constructed =
               {"user_proxy", "browser_nav_executor", "planner_agent"}
        /\ creates[i].stored = NoMap

\* C3 as stated: process_command never raises to its caller.
C3_Original == result.kind # "raised"

\* C3: process_command captures openai.BadRequestError alone: it is logged
\* and the call returns None; APITimeoutError, RateLimitError and the
\* ValueError for an agents_map that is None reach the caller as exceptions.
C3_OnlyBadRequestCaptured ==
    /\ error.exc = "BadRequestError" => (result = Returned("None") /\ logged)
    /\ error.exc \in {"APITimeoutError", "RateLimitError", ErrAgentsMapNone}
        => (result = Raised(error.exc) /\ ~logged)
    /\ result.kind = "raised" => result.exc = error.exc

C3_Witness ==
    /\ error = [exc |-> "BadRequestError", agent |-> "browser_nav_agent"]
    /\ result = Returned("None")
    /\ logged
    /\ status = "Failed"

\* automatic replies user_proxy has produced in the exchange so far
AutoReplies ==
    Len(SelectSeq(chat_messages, LAMBDA m : m.role = "user_proxy")) - 1

UserProxyBudget ==
    wrapper.agents_map.dict["user_proxy"].max_consecutive_auto_reply

LastMessage == chat_messages[Len(chat_messages)]

EndedByCheck == pc = "idle" /\ status \in {"Terminated", "BudgetExhausted"}

InNested == pc \in {"nav", "executor"}

C7_Original ==
    \A i, j \in 1..Len(creates) :
        (i < j /\ creates[i].returned
            /\ creates[i].max_chat_round = creates[j].max_chat_round)
        => (creates[j].returned /\ creates[j].stored = creates[i].stored)

\* C8 as stated: the caller's role list is the same after create as before.
C8_Original ==
    creates # <<>> => agents_needed = creates[Len(creates)].requested

Str_CurrentURLLabel == SubSeq(Str_CurrentURL, 1, 11)

PlannerTurns ==
    Len(SelectSeq(chat_messages, LAMBDA m : m.role = "planner_agent"))

RejectedOnThirdPlannerTurn ==
    /\ error = [exc |-> "BadRequestError", agent |-> "planner_agent"]
    /\ PlannerTurns = 2

\* C10 as stated: when the backend rejects the request of planner_agent's
\* third turn, process_command returns an Error outcome carrying the kind and
\* roundsUsed = 2.
C10_Original ==
    RejectedOnThirdPlannerTurn
    => (result.kind = "returned" /\ result.value # "None")

\* C10: when the backend rejects the request of planner_agent's third turn,
\* process_command logs the error and returns None (no outcome value, no
\* roundsUsed); two turns of planner_agent completed, the failed call was
\* issued once and the exchange issues no further turn.
C10_RejectedThirdTurn ==
    RejectedOnThirdPlannerTurn
    => /\ result = Returned("None")
       /\ logged
       /\ backend_calls = 3
       /\ status = "Failed"
       /\ pc = "idle"

C10_Witness ==
    /\ RejectedOnThirdPlannerTurn
    /\ result = Returned("None")
    /\ backend_calls = 3
    /\ AutoReplies = 2

\* user_proxy's last reply is the latest message of the exchange
UserProxyReplied ==
    status # "Idle" /\ Len(chat_messages) > 1 /\ LastMessage.role = "user_proxy"

JustHandedBack == pc = "planner" /\ Len(chat_messages) > 1

\* no message of the nested chat satisfies the executor's predicate
NoNestedTermination ==
    \A i \in 1..Len(nested_messages) :
        ~IsTerminationMsgExecutor(nested_messages[i].content)

LastNested == nested_messages[Len(nested_messages)].content

Ended == pc = "idle" /\ status \in {"Terminated", "BudgetExhausted", "Failed"}

\* the outcome the command facade is said to return for an ending
SaidOutcome ==
    [Terminated |-> "Success", BudgetExhausted |-> "Incomplete",
     Failed |-> "Error"]

\* C13 as stated: process_command returns Success for a run ended by a
\* termination predicate, Incomplete for one ended by the round budget and
\* Error for one ended by a backend failure, three different values.
C13_Original ==
    Ended => (result.kind = "returned" /\ result.value = SaidOutcome[status])

\* C13: process_command returns None for a run ended by a termination
\* predicate, for one ended by the round budget and for one ended by a
\* rejected request alike; only a run ended by a timeout or a rate limit is
\* told apart, by the exception that reaches the caller.
C13_EndingsReturnNone ==
    Ended =>
        IF status = "Failed" /\ error.exc \in {"APITimeoutError", "RateLimitError"}
        THEN result.kind = "raised" /\ result.exc = error.exc
        ELSE result.kind = "returned" /\ result.value = "None"

C13_Witness ==
    /\ Ended
    /\ status = "Terminated"
    /\ AutoReplies = 0
    /\ result.kind = "returned"
    /\ result.value = "None"

\* the role list a call of create works on
Requested(c) ==
    IF c.requested.isNone THEN DefaultAgentsNeeded ELSE c.requested.list

\* __initialize_agents returned an agents_map in this call of create
Built(c) == c.stored # NoMap

Keys(c) == DOMAIN c.stored.dict

\* C14 as stated: in every agents_map that __initialize_agents returns, the
\* executor is present exactly when the navigator is.
C14_Original ==
    \A i \in 1..Len(creates) :
        Built(creates[i])
        => ("browser_nav_executor" \in Keys(creates[i])
                <=> "browser_nav_agent" \in Keys(creates[i]))

\* C14: every agents_map that __initialize_agents returns holds user_proxy
\* and the executor, whatever was asked for beside them; it holds the
\* navigator exactly when the role list names browser_nav_agent, and the
\* planner exactly when it names planner_agent.  So a navigator always comes
\* with its executor, but an executor can be built without a navigator.
C14_ExecutorAlwaysNavigatorOnRequest ==
    \A i \in 1..Len(creates) :
        Built(creates[i])
        => /\ "user_proxy" \in Keys(creates[i])
           /\ "browser_nav_executor" \in Keys(creates[i])
           /\ "browser_nav_agent" \in Keys(creates[i])
                <=> In("browser_nav_agent", Requested(creates[i]))
           /\ "planner_agent" \in Keys(creates[i])
                <=> In("planner_agent", Requested(creates[i]))

C14_Witness ==
    \E i \in 1..Len(creates) :
        /\ creates[i].requested =
               ListArg(<<"browser_nav_executor", "user_proxy">>)
        /\ Built(creates[i])
        /\ Keys(creates[i]) = {"user_proxy", "browser_nav_executor"}

\* a role the delegation link refers to is not in the agents_map built
LinkRoleAbsent(c) ==
    \E r \in {"planner_agent", "browser_nav_executor", "browser_nav_agent"} :
        r \notin Keys(c)

\* C16 as stated: when the agents_map just built lacks the planner, the
\* executor or the navigator, create raises the unknown-agent-type error and
\* returns no wrapper.
C16_Original ==
    \A i \in 1..Len(creates) :
        (Built(creates[i]) /\ LinkRoleAbsent(creates[i]))
        => (creates[i].err = ErrUnknownAgentType /\ ~creates[i].returned)

\* C16: when the agents_map just built lacks the navigator or the planner,
\* create raises KeyError for the first of the two it looks up and misses
\* (the navigator before the planner) and returns no wrapper, so no command
\* can be run on it; the executor is never the one that is absent.
C16_LinkLookupKeyError ==
    \A i \in 1..Len(creates) :
        (Built(creates[i]) /\ LinkRoleAbsent(creates[i]))
        => /\ creates[i].err = ErrKeyError
           /\ creates[i].name =
                IF "browser_nav_agent" \notin Keys(creates[i])
                THEN "browser_nav_agent" ELSE "planner_agent"
           /\ ~creates[i].returned
           /\ "browser_nav_executor" \in Keys(creates[i])

C16_Witness ==
    \E i \in 1..Len(creates) :
        /\ creates[i].requested =
               ListArg(<<"user_proxy", "browser_nav_agent",
                         "browser_nav_executor">>)
        /\ Built(creates[i])
        /\ creates[i].err = ErrKeyError
        /\ creates[i].name = "planner_agent"
        /\ ~creates[i].returned

\* how many times x is in list l
Count(x, l) == Cardinality({i \in 1..Len(l) : l[i] = x})

\* C19 as stated: create returns a wrapper only for a role list that holds
\* each of the four roles exactly once, and the wrapper's agents_map has
\* exactly the four keys.
C19_Original ==
    \A i \in 1..Len(creates) :
        creates[i].returned
        => /\ \A r \in KnownRoles : Count(r, Requested(creates[i])) = 1
           /\ Len(Requested(creates[i])) = 4
           /\ Keys(creates[i]) = KnownRoles

\* C19: create returns a wrapper exactly for a role list (the default one
\* when None is passed) that holds user_proxy once, browser_nav_executor
\* once, planner_agent and browser_nav_agent at least once each and nothing
\* else; repeated planner_agent or browser_nav_agent entries are accepted.
\* Every wrapper returned holds an agents_map with exactly the four keys.
C19_CreateSucceedsIff ==
    \A i \in 1..Len(creates) :
        /\ creates[i].returned
            <=> /\ Count("user_proxy", Requested(creates[i])) = 1
                /\ Count("browser_nav_executor", Requested(creates[i])) = 1
                /\ Count("planner_agent", Requested(creates[i])) >= 1
                /\ Count("browser_nav_agent", Requested(creates[i])) >= 1
                /\ ~HasUnknownName(Requested(creates[i]))
        /\ creates[i].returned
            => /\ Keys(creates[i]) = KnownRoles
               /\ wrapper.origin = "create"
               /\ DOMAIN wrapper.agents_map.dict = KnownRoles

C19_Witness ==
    \E i \in 1..Len(creates) :
        /\ creates[i].requested =
               ListArg(<<"planner_agent", "user_proxy", "planner_agent",
                         "browser_nav_executor", "browser_nav_agent">>)
        /\ creates[i].returned
        /\ Keys(creates[i]) = KnownRoles

\* C15 as stated: while a nested chat runs, its first message is the planner
\* reply that triggered it, the latest message of the parent exchange.
C15_Original ==
    InNested =>
        /\ LastMessage.role = "planner_agent"
        /\ nested_messages[1].content = LastMessage.content

\* an is_termination_msg has been called
Probed == probe # NoProbe

\* C17: an agent's is_termination_msg is true exactly when the message has
\* content whose text, trailing whitespace apart, ends with a spelling in any
\* case of that agent's own sentinel; it is false for a message with empty
\* content or without content, for the other agent's sentinel, and when
\* anything but whitespace follows the sentinel.  What stands before the
\* sentinel makes no difference.
C17_TerminationPredicate ==
    Probed =>
        /\ probe.result = IsTerminationMsg(probe.agent, probe.message)
        /\ probe.message.hasContent
            => (probe.result <=> /\ probe.parts[2].spells = probe.agent
                                 /\ probe.parts[3].blank)
        /\ ~probe.message.hasContent => ~probe.result
        /\ probe.message.content = <<>> => ~probe.result

C17_Witness ==
    /\ Probed
    /\ probe.agent = "browser_nav_executor"
    /\ probe.message.hasContent
    /\ probe.parts[1] = <<"x", " ">>
    /\ probe.parts[2].text =
           <<"#","#","t","e","r","m","i","n","a","t","e"," ",
             "s","u","b","t","a","s","k","#","#">>
    /\ probe.parts[3].text = <<" ", "\t", "\n">>
    /\ probe.result

\* the nested chat hands its summary back in this step
HandsBack == InNested /\ ~InNested' /\ status' # "Failed"

\* C18: the nested chat stops at the navigator reply on which the executor's
\* termination predicate fires, or else at its second turn, whichever comes
\* first; it goes into a second turn only when the predicate did not fire on
\* the first reply.  When the summary is handed back the outer exchange is
\* Running and it is the planner's turn.  The outer exchange becomes
\* Terminated only outside the nested chat, on a planner message that ends
\* with "##TERMINATE##", never on the nested sentinel.
C18_NestedTerminationStaysNested ==
    [][/\ HandsBack =>
            /\ status' = "Running"
            /\ pc' = "planner"
            /\ \/ nested_turns = 2
               \/ /\ nested_turns = 1
                  /\ IsTerminationMsgExecutor(
                         nested_messages'[Len(nested_messages')].content)
       /\ (pc = "nav" /\ pc' = "executor") =>
            /\ nested_turns = 1
            /\ ~IsTerminationMsgExecutor(
                   nested_messages'[Len(nested_messages')].content)
       /\ (InNested /\ InNested') => status' = "Running"
       /\ (status # "Terminated" /\ status' = "Terminated") =>
            /\ pc = "planner"
            /\ chat_messages'[Len(chat_messages')].role = "planner_agent"
            /\ IsTerminationMsgUserProxy(
                   chat_messages'[Len(chat_messages')].content)
            /\ ~IsTerminationMsgExecutor(
                   chat_messages'[Len(chat_messages')].content)]_vars

C18_Witness ==
    /\ pc = "planner"
    /\ status = "Running"
    /\ nested_turns = 1
    /\ Len(nested_messages) = 2
    /\ nested_messages[2].role = "browser_nav_agent"
    /\ IsTerminationMsgExecutor(nested_messages[2].content)
    /\ LastMessage.role = "user_proxy"

\* C20: process_command given the empty string as current URL renders the
\* same initial message as it renders for the same command given None, and
\* that message has no "Current URL" text.
C20_EmptyUrlAsNone ==
    (cmd.prompt # <<>> /\ cmd.current_url = Url(<<>>)) =>
        /\ cmd.prompt = Substitute(COMMAND_EXECUTION_PROMPT, cmd.command, <<>>)
        /\ cmd.prompt = RenderPrompt(cmd.command, NoUrl)
        /\ ~Contains(cmd.prompt, Str_CurrentURLLabel)
        /\ chat_messages # <<>> => chat_messages[1].content = cmd.prompt

C20_Witness ==
    /\ cmd.current_url = Url(<<>>)
    /\ cmd.command = <<"g","o">>
    /\ chat_messages # <<>>
    /\ chat_messages[1] = Msg("user_proxy", <<"D","o"," ","g","o"," ">>)

=============================================================================
